---- MODULE Spec2Model ----
(***************************************************************************)
(* The viewport-driven incremental data-loading controller of the Chart    *)
(* repository (React components wrapping a Highcharts stock chart).        *)
(*                                                                         *)
(* The repository holds two controllers with the same state and hooks:     *)
(*   "multi"  - src/frontend/src/components/TradingChart.js, a list of     *)
(*              selected symbols, one request per symbol joined by         *)
(*              Promise.all;                                               *)
(*   "single" - src/unnamed/part_000 (part_001 is the same code without    *)
(*              its comments), one selected symbol.                        *)
(* variant says which one a behaviour is about; it never changes.          *)
(*                                                                         *)
(* React state is one variable per useState hook.  One action is one       *)
(* handler run to quiescence: the handler's setState calls, the re-render  *)
(* and every effect whose dependencies changed, until no effect is left    *)
(* to run.  A fetch is asynchronous: fetchData's synchronous prefix        *)
(* (setIsLoading(true) and the request) belongs to the action that calls   *)
(* it, its continuation after the await is the action FetchSuccess or      *)
(* FetchFailure, which may interleave with every other handler.  The       *)
(* continuation reads the symbol and timeframe its closure captured, kept  *)
(* in the request record.                                                  *)
(*                                                                         *)
(* Time is in milliseconds, as in the source.  Timestamps are integers.    *)
(* JavaScript's null coerces to 0 in arithmetic and in <, <=, >, >=; a     *)
(* range {min: null, max: null} is the record NullRange, whose min and max *)
(* hold that coercion and whose isNull says the fields are null.           *)
(***************************************************************************)
EXTENDS Integers, Sequences, FiniteSets, TLC

VARIABLES
    variant,          \* "multi" | "single": which controller
    mounted,          \* the component's first render and its effects ran
    selectedSymbols,  \* useState selectedSymbols (multi) / <<symbol>> (single)
    timeframe,        \* useState timeframe
    rawSeries,        \* useState rawSeries
    seriesData,       \* useState seriesData: rawSeries with the visible flags
    visibleRange,     \* useState visibleRange
    loadedRange,      \* useState loadedRange
    isLoading,        \* useState isLoading
    visibleColumns,   \* useState visibleColumns
    initialLoadDone,  \* useState initialLoadDone (multi only)
    inflight,         \* the requests awaited by a fetchData call, oldest first
    heldReq,          \* history: <<request>> whose response rawSeries holds, or <<>>
    newest,           \* history: the most recently issued request and its outcome
    last,             \* history: the operation that led to this state
    ops,              \* history: how many user operations ran since the mount
    probe             \* a pure function of the source examined alone: NoProbe, or
                      \* its name, its arguments and the result it computed

vars == <<variant, mounted, selectedSymbols, timeframe, rawSeries, seriesData,
          visibleRange, loadedRange, isLoading, visibleColumns, initialLoadDone,
          inflight, heldReq, newest, last, ops, probe>>

---------------------------------------------------------------------------
(* Program constants *)

oneDay == 24 * 3600 * 1000

DEFAULT_TIMEFRAME == "1min"

DEFAULT_VISIBLE_COLUMNS == [c \in {"c1", "c2", "c3", "c4", "c5", "c6"} |-> TRUE]

COLUMN_KEYS == <<"c1", "c2", "c3", "c4", "c5", "c6">>

COLORS_multi ==
    <<"#007bff", "#28a745", "#ffc107", "#dc3545", "#6f42c1", "#17a2b8",
      "#fd7e14", "#20c997", "#6610f2", "#e83e8c">>

COLORS_single ==
    <<"#007bff", "#28a745", "#ffc107", "#dc3545", "#6f42c1", "#17a2b8">>

\* A table in which a day has no duration.
timeframeMinMs_ZeroDay ==
    [tf \in {"1ms", "10ms", "100ms", "1s", "1min", "5min", "1h", "1d"} |->
        CASE tf = "1ms"   -> 1
          [] tf = "10ms"  -> 10
          [] tf = "100ms" -> 100
          [] tf = "1s"    -> 1000
          [] tf = "1min"  -> 60000
          [] tf = "5min"  -> 300000
          [] tf = "1h"    -> 3600000
          [] tf = "1d"    -> 0]

\* The tokens of the timeframe buttons.
TimeframeButtons == <<"1ms", "10ms", "100ms", "1s", "1min", "5min", "1h", "1d">>

timeframeMinMs ==
    [tf \in {"1ms", "10ms", "100ms", "1s", "1min", "5min", "1h", "1d"} |->
        CASE tf = "1ms"   -> 1
          [] tf = "10ms"  -> 10
          [] tf = "100ms" -> 100
          [] tf = "1s"    -> 1000
          [] tf = "1min"  -> 60000
          [] tf = "5min"  -> 300000
          [] tf = "1h"    -> 3600000
          [] tf = "1d"    -> oneDay]

---------------------------------------------------------------------------
(* Bounds of the model *)

\* Date.now() at a mount or a symbol change.
Now == 600000

\* The default lookback window.  The source looks back 7 days (multi) or
\* 10000 hours (single); the model scales both so that every widened window
\* stays inside TLC's 32-bit integers.
Lookback == 300000

\* At most this many fetchData calls are awaited at once.
MaxInflight == 3

\* At most this many user operations (viewport events, symbol, timeframe and
\* column changes) follow the mount.
MaxOps == 2

\* The largest timestamp the key handlers let a bound reach.  The source has
\* 8640000000000000, the limit of a JavaScript Date; the model scales it.
DateLimit == 8640000

\* The symbols the user picks among (SYMBOLS of the source has more).
SymbolChoices == {"AMZN", "AAPL"}

\* The timeframe buttons the user presses (the source offers all of
\* DOMAIN timeframeMinMs).
TimeframeChoices == {"1s", "1min"}

\* The columns whose checkbox the user toggles.
ColumnChoices == {"c1"}

\* The ranges the chart reports in afterSetExtremes events.
EventRanges ==
    { <<400000, 500000>>,    \* narrow, inside the first loaded window
      <<100000, 500000>>,    \* wide, inside it, near its lower edge
      <<250000, 650000>>,    \* wide, well inside it
      <<850000, 1850000>> }  \* reaching past the first loaded window

Triggers == {"init", "zoom", "pan", "zoomout", "undefined", "navigator"}

Events == { [min |-> r[1], max |-> r[2], trigger |-> t] : r \in EventRanges, t \in Triggers }

\* What the endpoint answers: rows in order, or rows out of order with a
\* null and a missing cell.
ResponseShapes == {"ordered", "unordered"}

---------------------------------------------------------------------------
(* Ranges *)

NullRange == [isNull |-> TRUE, min |-> 0, max |-> 0]

MkRange(lo, hi) == [isNull |-> FALSE, min |-> lo, max |-> hi]

\* Math.floor(x / unit) * unit and Math.ceil(x / unit) * unit
FloorTo(x, unit) == (x \div unit) * unit

\* Math.floor where the source has Math.ceil.
CeilTo_Floors(x, unit) == (x \div unit) * unit

CeilTo(x, unit) == -(((-x) \div unit) * unit)

\* The default window [now - lookback, now] of the mount and symbol effects.
DefaultWindow == MkRange(Now - Lookback, Now)

---------------------------------------------------------------------------
(* Requests *)

\* fetchData(min, max[, symbolsToFetch]) up to its await: the window is
\* widened by its own span on each side; symbols and tf are what the
\* closure captured.
\* by and newest are history: the operation that called fetchData, and
\* whether no fetchData call followed this one.
FetchRequest(lo, hi, syms, tf, by) ==
    [min |-> lo, max |-> hi,
     start |-> lo - (hi - lo), end |-> hi + (hi - lo),
     symbols |-> syms, timeframe |-> tf, by |-> by, newest |-> TRUE]

Demote(q) == [i \in 1..Len(q) |-> [q[i] EXCEPT !.newest = FALSE]]

\* The queue after one more fetchData call.
Issue(q, r) == Append(Demote(q), r)

\* History: after a symbol change, the requests of earlier symbol changes
\* are no longer the one sent for the active symbol set.
Superseded(q) ==
    [i \in 1..Len(q) |-> IF q[i].by = "symbol" THEN [q[i] EXCEPT !.by = "symbol-old"] ELSE q[i]]

RemoveAt(q, i) == [j \in 1..(Len(q) - 1) |-> IF j < i THEN q[j] ELSE q[j + 1]]

---------------------------------------------------------------------------
(* The endpoint's rows and their projection to series *)

NumCell(v) == [k |-> "num", v |-> v]

NullCell == [k |-> "null", v |-> 0]

MissingCell == [k |-> "undefined", v |-> 0]

\* Number(x): null is 0, undefined is NaN
Number(cell) ==
    CASE cell.k = "num"       -> cell
      [] cell.k = "null"      -> NumCell(0)
      [] cell.k = "undefined" -> [k |-> "NaN", v |-> 0]

\* The rows the endpoint returns for one symbol of request r: all of them
\* inside the queried window [r.start, r.end].
Rows(shape, r) ==
    IF shape = "ordered"
    THEN << [time |-> r.start, cells |-> [c \in DOMAIN DEFAULT_VISIBLE_COLUMNS |-> NumCell(1)]],
            [time |-> r.end,   cells |-> [c \in DOMAIN DEFAULT_VISIBLE_COLUMNS |-> NumCell(2)]] >>
    ELSE << [time |-> r.end,
             cells |-> [c \in DOMAIN DEFAULT_VISIBLE_COLUMNS |->
                          CASE c = "c2" -> NullCell
                            [] c = "c3" -> MissingCell
                            [] OTHER    -> NumCell(2)]],
            [time |-> r.start, cells |-> [c \in DOMAIN DEFAULT_VISIBLE_COLUMNS |-> NumCell(1)]] >>

PointsOf(rows, col) == [i \in 1..Len(rows) |-> <<rows[i].time, Number(rows[i].cells[col])>>]

HasValue(row, col) == row.cells[col].k # "undefined" /\ row.cells[col].k # "null"

\* multi: the series of one symbol's result, a point only for a cell that
\* is neither undefined nor null.
SymbolSeries_multi(sym, rows) ==
    [i \in 1..Len(COLUMN_KEYS) |->
        [name   |-> <<sym, COLUMN_KEYS[i]>>,
         data   |-> PointsOf(SelectSeq(rows, LAMBDA row : HasValue(row, COLUMN_KEYS[i])),
                             COLUMN_KEYS[i]),
         color  |-> COLORS_multi[((i - 1) % Len(COLORS_multi)) + 1],
         symbol |-> sym,
         column |-> COLUMN_KEYS[i]]]

\* A join that installs the series of the first symbol only.
NewRawSeries_multi_FirstOnly(syms, shape, r) ==
    IF syms = <<>> THEN <<>> ELSE SymbolSeries_multi(Head(syms), Rows(shape, r))

RECURSIVE NewRawSeries_multi(_, _, _)
NewRawSeries_multi(syms, shape, r) ==
    IF syms = <<>> THEN <<>>
    ELSE SymbolSeries_multi(Head(syms), Rows(shape, r))
           \o NewRawSeries_multi(Tail(syms), shape, r)

\* single: six series named by their column, a point for every row.  The
\* symbol field is history (the source's series carry none): the symbol the
\* request was sent for.
NewRawSeries_single(sym, rows) ==
    [i \in 1..Len(COLUMN_KEYS) |->
        [name   |-> COLUMN_KEYS[i],
         data   |-> PointsOf(rows, COLUMN_KEYS[i]),
         color  |-> COLORS_single[i],
         symbol |-> sym,
         column |-> COLUMN_KEYS[i]]]

\* A projection that empties the series it hides.
Project_DropsHidden(raw, mask) ==
    [i \in 1..Len(raw) |->
        [name |-> raw[i].name, data |-> IF mask[raw[i].column] THEN raw[i].data ELSE <<>>,
         color |-> raw[i].color, symbol |-> raw[i].symbol, column |-> raw[i].column,
         visible |-> mask[raw[i].column]]]

\* The effect on [rawSeries, visibleColumns]: seriesData is rawSeries with
\* each series' visible flag read from the mask.
Project(raw, mask) ==
    [i \in 1..Len(raw) |->
        [name |-> raw[i].name, data |-> raw[i].data, color |-> raw[i].color,
         symbol |-> raw[i].symbol, column |-> raw[i].column,
         visible |-> mask[raw[i].column]]]

---------------------------------------------------------------------------
(* handleAfterSetExtremes: the decision taken for one viewport-change event *)

\* The window [floor(min/unit)*unit, ceil(max/unit)*unit] of the event.
Aligned(e, tf) ==
    MkRange(FloorTo(e.min, timeframeMinMs[tf]), CeilTo(e.max, timeframeMinMs[tf]))

NoFetch(rec) == [record |-> rec, fetch |-> <<>>]

FetchOf(w) == [record |-> TRUE, fetch |-> <<w>>]

\* A handler that does not look at the symbol list: it fetches for an empty
\* one as for any other.
Decide_multi_NoSymbolTest(e, loading, loaded, syms, tf) ==
    IF loading THEN NoFetch(FALSE)
    ELSE IF e.trigger \notin {"zoom", "pan", "undefined", "zoomout"} THEN NoFetch(TRUE)
    ELSE IF loaded.isNull \/ e.trigger # "zoomout" THEN FetchOf(Aligned(e, tf))
    ELSE NoFetch(TRUE)

\* A handler without the isLoading guard: every event of a fetching trigger
\* fetches its aligned window.
Decide_multi_Unguarded(e, loading, loaded, syms, tf) ==
    IF e.trigger \in {"zoom", "pan", "undefined", "zoomout"} /\ Len(syms) > 0
    THEN FetchOf(Aligned(e, tf))
    ELSE NoFetch(TRUE)

\* multi.  record: setVisibleRange({min, max}) was called; fetch: the
\* window fetchData was called with, if it was.  x <= y * 0.3 is computed
\* as 10x <= 3y and y * 0.2 (bufferRatio) as y / 5 with both sides times 5.
Decide_multi(e, loading, loaded, syms, tf) ==
    LET currentVisibleSpan == e.max - e.min
        currentLoadedSpan  == loaded.max - loaded.min
        needsFetch ==
            IF loaded.isNull THEN TRUE
            ELSE IF 5 * e.min < 5 * loaded.min + currentLoadedSpan
                    \/ 5 * e.max > 5 * loaded.max - currentLoadedSpan THEN TRUE
            ELSE e.trigger = "zoomout" /\ (e.min < loaded.min \/ e.max > loaded.max)
    IN  IF loading THEN NoFetch(FALSE)
        ELSE IF e.trigger \notin {"zoom", "pan", "undefined", "zoomout"} THEN NoFetch(TRUE)
        ELSE IF 10 * currentVisibleSpan <= 3 * currentLoadedSpan /\ e.trigger # "zoomout"
             THEN IF Len(syms) > 0 THEN FetchOf(Aligned(e, tf)) ELSE NoFetch(TRUE)
        ELSE IF needsFetch /\ Len(syms) > 0 THEN FetchOf(Aligned(e, tf))
        ELSE NoFetch(TRUE)

\* A handler that waits for a loaded range before it fetches.
Decide_single_NoReload(e, loading, loaded, tf) ==
    IF loading \/ e.trigger = "init" THEN NoFetch(FALSE)
    ELSE IF loaded.isNull THEN NoFetch(TRUE)
    ELSE FetchOf(Aligned(e, tf))

\* A handler whose every fetch is for the aligned bounding box of the
\* event's range and the loaded range.
Decide_single_UnionOnPan(e, loading, loaded, tf) ==
    IF loading \/ e.trigger = "init" THEN NoFetch(FALSE)
    ELSE IF loaded.isNull THEN FetchOf(Aligned(e, tf))
    ELSE FetchOf(Aligned([min |-> IF e.min < loaded.min THEN e.min ELSE loaded.min,
                          max |-> IF e.max > loaded.max THEN e.max ELSE loaded.max], tf))

\* A handler without the edge rules: every event it processes fetches its
\* aligned window.
Decide_single_AlwaysFetch(e, loading, loaded, tf) ==
    IF loading \/ e.trigger = "init" THEN NoFetch(FALSE) ELSE FetchOf(Aligned(e, tf))

\* single (part_000; part_001 is the same).
Decide_single(e, loading, loaded, tf) ==
    LET span    == e.max - e.min
        nowspan == loaded.max - loaded.min
        diff    == (loaded.max - loaded.min) \div 5
        nearEdge == (e.max >= loaded.max - diff) \/ (e.min <= loaded.min + diff)
    IN  IF loading \/ e.trigger = "init" THEN NoFetch(FALSE)
        ELSE IF e.trigger # "zoomout" /\ 10 * span <= 3 * nowspan
             THEN FetchOf(Aligned(e, tf))
        ELSE IF e.trigger = "pan"
             THEN IF nearEdge THEN FetchOf(Aligned(e, tf)) ELSE NoFetch(TRUE)
        ELSE IF e.trigger = "zoomout"
             THEN IF nearEdge THEN FetchOf(Aligned(e, tf)) ELSE NoFetch(TRUE)
        ELSE IF e.trigger = "undefined" THEN NoFetch(TRUE)
        ELSE IF ~loaded.isNull
             THEN IF e.min >= loaded.min /\ e.max <= loaded.max THEN NoFetch(TRUE)
                  ELSE FetchOf(MkRange(IF e.min < loaded.min THEN e.min ELSE loaded.min,
                                       IF e.max > loaded.max THEN e.max ELSE loaded.max))
        ELSE FetchOf(MkRange(e.min, e.max))

Decide(e) ==
    IF variant = "multi"
    THEN Decide_multi(e, isLoading, loadedRange, selectedSymbols, timeframe)
    ELSE Decide_single(e, isLoading, loadedRange, timeframe)

---------------------------------------------------------------------------
(* fetchData's continuation *)

\* A tracker that narrows the window by its span where the query widened it.
LoadedAfter_SignSlip(r, prev) ==
    MkRange(r.min + (r.max - r.min), r.max - (r.max - r.min))

\* A tracker that keeps the window fetchData was called with.
LoadedAfter_Unwidened(r, prev) == MkRange(r.min, r.max)

\* A tracker that extends the previous range instead of replacing it.
LoadedAfter_Union(r, prev) ==
    IF prev.isNull THEN MkRange(r.start, r.end)
    ELSE MkRange(IF prev.min < r.start THEN prev.min ELSE r.start,
                 IF prev.max > r.end THEN prev.max ELSE r.end)

\* setLoadedRange of a successful fetch: the widened window, computed from
\* the Date objects the query was made of (multi) or again from min, max and
\* d (single).
LoadedAfter(r, prev) ==
    IF variant = "multi"
    THEN MkRange(r.start, r.end)
    ELSE MkRange(r.min - (r.max - r.min), r.max + (r.max - r.min))

\* setRawSeries of a successful fetch.
\* A continuation that appends the response's points to the held ones.
RawAfter_Merges(r, shape) ==
    LET new == IF variant = "multi"
               THEN NewRawSeries_multi(r.symbols, shape, r)
               ELSE NewRawSeries_single(r.symbols[1], Rows(shape, r))
    IN  IF Len(rawSeries) # Len(new) THEN new
        ELSE [i \in 1..Len(new) |-> [new[i] EXCEPT !.data = rawSeries[i].data \o new[i].data]]

RawAfter(r, shape) ==
    IF variant = "multi"
    THEN NewRawSeries_multi(r.symbols, shape, r)
    ELSE NewRawSeries_single(r.symbols[1], Rows(shape, r))

\* A catch block that drops the series.
RawAfterFailure_Clears(raw) == <<>>

\* The catch block: what a failed fetch leaves of rawSeries and loadedRange.
RawAfterFailure(raw) == raw

LoadedAfterFailure(loaded) == loaded

---------------------------------------------------------------------------
(* The effects on the symbol set and on the timeframe *)

\* The window the multi effects fetch: visibleRange, or the default window
\* when visibleRange is not set.
EffectWindow(vr) == IF vr.isNull THEN DefaultWindow ELSE vr

\* The requests the multi effect on [selectedSymbols, initialLoadDone] sends.
SymbolEffectRequests(syms, vr, tf) ==
    IF Len(syms) > 0
    THEN <<FetchRequest(EffectWindow(vr).min, EffectWindow(vr).max, syms, tf, "symbol")>>
    ELSE <<>>

\* The requests the multi effect on [timeframe, initialLoadDone] sends.
TimeframeEffectRequests(syms, vr, tf) ==
    IF Len(syms) > 0
    THEN <<FetchRequest(EffectWindow(vr).min, EffectWindow(vr).max, syms, tf, "timeframe")>>
    ELSE <<>>

RECURSIVE IssueAll(_, _)
IssueAll(q, rs) == IF rs = <<>> THEN q ELSE IssueAll(Issue(q, Head(rs)), Tail(rs))

\* last: the operation, its event if it is one, the number of fetchData
\* calls it made and the loadedRange it started from.
Op(name, ev, n) == [op |-> name, ev |-> ev, issued |-> n, before |-> loadedRange]

NoRequest == [outcome |-> "none", req |-> <<>>]

\* No pure function was examined.
NoProbe == [fn |-> "none"]

\* newest after the requests rs were sent (none: unchanged).
NewestAfter(rs) ==
    IF rs = <<>> THEN newest ELSE [outcome |-> "pending", req |-> <<rs[Len(rs)]>>]

\* newest after request r completed with outcome o.
NewestDone(r, o) == IF r.newest THEN [outcome |-> o, req |-> <<r>>] ELSE newest

---------------------------------------------------------------------------
(* The state machine *)

Init ==
    /\ variant \in {"multi", "single"}
    /\ mounted = FALSE
    /\ selectedSymbols = <<"AMZN">>
    /\ timeframe = DEFAULT_TIMEFRAME
    /\ rawSeries = <<>>
    /\ seriesData = <<>>
    /\ visibleRange = NullRange
    /\ loadedRange = NullRange
    /\ isLoading = FALSE
    /\ visibleColumns = DEFAULT_VISIBLE_COLUMNS
    /\ initialLoadDone = FALSE
    /\ inflight = <<>>
    /\ heldReq = <<>>
    /\ newest = NoRequest
    /\ last = Op("init", <<>>, 0)
    /\ ops = 0
    /\ probe = NoProbe

\* The requests the first render's effects send, and those of the
\* re-renders they cause.
\* multi: the initial-load effect fetches the default window and sets
\* initialLoadDone; the re-render runs the effects on [selectedSymbols,
\* initialLoadDone] and on [timeframe, initialLoadDone], whose dependency
\* initialLoadDone changed: each fetches visibleRange again.
\* single: the effect on [] and the effect on [symbol] both run and both
\* fetch the default window.
MountRequests ==
    LET w  == DefaultWindow
        r0 == FetchRequest(w.min, w.max, selectedSymbols, timeframe, "mount")
        by0(rs) == [i \in 1..Len(rs) |-> [rs[i] EXCEPT !.by = "mount"]]
    IN  IF variant = "multi"
        THEN IF Len(selectedSymbols) > 0
             THEN <<r0>> \o by0(SymbolEffectRequests(selectedSymbols, w, timeframe))
                         \o by0(TimeframeEffectRequests(selectedSymbols, w, timeframe))
             ELSE <<>>
        ELSE <<r0, r0>>

Mount ==
    /\ ~mounted
    /\ UNCHANGED <<ops, probe>>
    /\ mounted' = TRUE
    /\ Len(inflight) + Len(MountRequests) <= MaxInflight
    /\ inflight' = IssueAll(inflight, MountRequests)
    /\ isLoading' = (MountRequests # <<>>)
    /\ visibleRange' = IF MountRequests # <<>> THEN DefaultWindow ELSE visibleRange
    /\ initialLoadDone' = (variant = "multi" /\ Len(selectedSymbols) > 0)
    /\ loadedRange' = NullRange
    /\ rawSeries' = <<>>
    /\ seriesData' = <<>>
    /\ timeframe' = IF variant = "single" THEN DEFAULT_TIMEFRAME ELSE timeframe
    /\ visibleColumns' = IF variant = "single" THEN DEFAULT_VISIBLE_COLUMNS ELSE visibleColumns
    /\ heldReq' = <<>>
    /\ newest' = NewestAfter(MountRequests)
    /\ last' = Op("mount", <<>>, Len(MountRequests))
    /\ UNCHANGED <<variant, selectedSymbols>>

\* The chart's afterSetExtremes event e.
AfterSetExtremes(e) ==
    /\ mounted
    /\ ops < MaxOps
    /\ ops' = ops + 1
    /\ UNCHANGED probe
    /\ LET d  == Decide(e)
           rs == IF d.fetch = <<>> THEN <<>>
                 ELSE <<FetchRequest(d.fetch[1].min, d.fetch[1].max, selectedSymbols,
                                     timeframe, "event")>>
       IN  /\ Len(inflight) + Len(rs) <= MaxInflight
           /\ visibleRange' = IF d.record THEN MkRange(e.min, e.max) ELSE visibleRange
           /\ inflight' = IssueAll(inflight, rs)
           /\ isLoading' = IF rs # <<>> THEN TRUE ELSE isLoading
           /\ heldReq' = IF rs # <<>> THEN Demote(heldReq) ELSE heldReq
           /\ newest' = NewestAfter(rs)
           /\ last' = Op("event", <<e>>, Len(rs))
    /\ UNCHANGED <<variant, mounted, selectedSymbols, timeframe, rawSeries, seriesData,
                   loadedRange, visibleColumns, initialLoadDone>>

\* handleSymbolChange(symbolClicked): the symbol leaves the list or joins
\* its end.
Toggled(syms, sym) ==
    IF \E i \in 1..Len(syms) : syms[i] = sym
    THEN SelectSeq(syms, LAMBDA x : x # sym)
    ELSE Append(syms, sym)

\* multi: a symbol checkbox, then the effect on [selectedSymbols,
\* initialLoadDone].  initialLoadDone is true once mounted, because
\* DEFAULT_SELECTED_SYMBOLS is not empty.
\* single: the symbol select, then the effect on [symbol], whose fetchData
\* is the one of the render that saw the new symbol and the old timeframe.
SymbolChange(sym) ==
    /\ mounted
    /\ ops < MaxOps
    /\ ops' = ops + 1
    /\ UNCHANGED probe
    /\ IF variant = "multi" THEN initialLoadDone ELSE sym # selectedSymbols[1]
    /\ LET syms == IF variant = "multi" THEN Toggled(selectedSymbols, sym) ELSE <<sym>>
           rs   == IF variant = "multi"
                   THEN SymbolEffectRequests(syms, visibleRange, timeframe)
                   ELSE <<FetchRequest(DefaultWindow.min, DefaultWindow.max, syms, timeframe,
                                       "symbol")>>
       IN  /\ Len(inflight) + Len(rs) <= MaxInflight
           /\ selectedSymbols' = syms
           /\ loadedRange' = NullRange
           /\ rawSeries' = <<>>
           /\ seriesData' = <<>>
           /\ inflight' = IssueAll(Superseded(inflight), rs)
           /\ isLoading' = (rs # <<>>)
           /\ visibleRange' =
                IF variant = "multi"
                THEN (IF rs # <<>> THEN EffectWindow(visibleRange) ELSE visibleRange)
                ELSE DefaultWindow
           /\ timeframe' = IF variant = "single" THEN DEFAULT_TIMEFRAME ELSE timeframe
           /\ visibleColumns' =
                IF variant = "single" THEN DEFAULT_VISIBLE_COLUMNS ELSE visibleColumns
           /\ heldReq' = <<>>
           /\ newest' = IF rs # <<>> THEN NewestAfter(rs) ELSE NoRequest
           /\ last' = Op("symbol", <<>>, Len(rs))
    /\ UNCHANGED <<variant, mounted, initialLoadDone>>

\* A timeframe button.  multi: the effect on [timeframe, initialLoadDone]
\* clears the data and fetches visibleRange with the new timeframe.
\* single: no effect depends on timeframe; only the state changes.
TimeframeChange(tf) ==
    /\ mounted
    /\ ops < MaxOps
    /\ ops' = ops + 1
    /\ UNCHANGED probe
    /\ tf # timeframe
    /\ IF variant = "multi" THEN initialLoadDone ELSE TRUE
    /\ LET rs == IF variant = "multi"
                 THEN TimeframeEffectRequests(selectedSymbols, visibleRange, tf)
                 ELSE <<>>
       IN  /\ Len(inflight) + Len(rs) <= MaxInflight
           /\ timeframe' = tf
           /\ loadedRange' = IF variant = "multi" THEN NullRange ELSE loadedRange
           /\ rawSeries' = IF variant = "multi" THEN <<>> ELSE rawSeries
           /\ seriesData' = IF variant = "multi" THEN <<>> ELSE seriesData
           /\ inflight' = IssueAll(inflight, rs)
           /\ isLoading' = IF rs # <<>> THEN TRUE ELSE isLoading
           /\ visibleRange' = IF rs # <<>> THEN EffectWindow(visibleRange) ELSE visibleRange
           /\ heldReq' = IF variant = "multi" THEN <<>> ELSE heldReq
           /\ newest' =
                IF rs # <<>> THEN NewestAfter(rs)
                ELSE IF variant = "multi" THEN NoRequest ELSE newest
           /\ last' = Op("timeframe", <<>>, Len(rs))
    /\ UNCHANGED <<variant, mounted, selectedSymbols, visibleColumns, initialLoadDone>>

\* A column checkbox, then the effect on visibleColumns.
ToggleColumn(c) ==
    /\ mounted
    /\ ops < MaxOps
    /\ ops' = ops + 1
    /\ UNCHANGED probe
    /\ visibleColumns' = [visibleColumns EXCEPT ![c] = ~visibleColumns[c]]
    /\ seriesData' = Project(rawSeries, visibleColumns')
    /\ last' = Op("toggle", <<>>, 0)
    /\ UNCHANGED <<variant, mounted, selectedSymbols, timeframe, rawSeries, visibleRange,
                   loadedRange, isLoading, initialLoadDone, inflight, heldReq,
                   newest>>

\* The i-th awaited request resolves (multi: every symbol's response is ok):
\* the try block's tail, the finally block, and the effect on rawSeries.
FetchSuccess(i, shape) ==
    /\ i \in 1..Len(inflight)
    /\ UNCHANGED <<ops, probe>>
    /\ LET r == inflight[i]
       IN  /\ rawSeries' = RawAfter(r, shape)
           /\ seriesData' = Project(rawSeries', visibleColumns)
           /\ loadedRange' = LoadedAfter(r, loadedRange)
           /\ isLoading' = FALSE
           /\ inflight' = RemoveAt(inflight, i)
           /\ heldReq' = <<r>>
           /\ newest' = NewestDone(r, "success")
           /\ last' = Op("success", <<>>, 0)
    /\ UNCHANGED <<variant, mounted, selectedSymbols, timeframe, visibleRange,
                   visibleColumns, initialLoadDone>>

\* A rejection handled without the finally block: isLoading is left as is.
FetchFailure_NoFinally(i) ==
    /\ i \in 1..Len(inflight)
    /\ UNCHANGED <<ops, probe>>
    /\ LET r == inflight[i]
       IN  /\ rawSeries' = RawAfterFailure(rawSeries)
           /\ seriesData' = Project(rawSeries', visibleColumns)
           /\ loadedRange' = LoadedAfterFailure(loadedRange)
           /\ isLoading' = isLoading
           /\ inflight' = RemoveAt(inflight, i)
           /\ newest' = NewestDone(r, "failure")
           /\ last' = Op("failure", <<>>, 0)
    /\ UNCHANGED <<variant, mounted, selectedSymbols, timeframe, visibleRange,
                   visibleColumns, initialLoadDone, heldReq>>

\* The i-th awaited request rejects (the network fails, or a response is
\* not ok): the catch block and the finally block.
FetchFailure(i) ==
    /\ i \in 1..Len(inflight)
    /\ UNCHANGED <<ops, probe>>
    /\ LET r == inflight[i]
       IN  /\ rawSeries' = RawAfterFailure(rawSeries)
           /\ seriesData' = Project(rawSeries', visibleColumns)
           /\ loadedRange' = LoadedAfterFailure(loadedRange)
           /\ isLoading' = FALSE
           /\ inflight' = RemoveAt(inflight, i)
           /\ newest' = NewestDone(r, "failure")
           /\ last' = Op("failure", <<>>, 0)
    /\ UNCHANGED <<variant, mounted, selectedSymbols, timeframe, visibleRange,
                   visibleColumns, initialLoadDone, heldReq>>

Next ==
    \/ Mount
    \/ \E e \in Events : AfterSetExtremes(e)
    \/ \E sym \in SymbolChoices : SymbolChange(sym)
    \/ \E tf \in TimeframeChoices : TimeframeChange(tf)
    \/ \E c \in ColumnChoices : ToggleColumn(c)
    \/ \E i \in 1..MaxInflight, shape \in ResponseShapes : FetchSuccess(i, shape)
    \/ \E i \in 1..MaxInflight : FetchFailure(i)

Spec == Init /\ [][Next]_vars

\* Every awaited request settles: the promise of a fetch in flight is
\* eventually fulfilled or rejected, and its continuation then runs.
Settle ==
    \/ \E i \in 1..MaxInflight, shape \in ResponseShapes : FetchSuccess(i, shape)
    \/ \E i \in 1..MaxInflight : FetchFailure(i)

\* The operations that call fetchData, with the events of two ranges.
LiveEvents ==
    { e \in Events : e.trigger \in {"zoom", "pan"}
                        /\ <<e.min, e.max>> \in {<<100000, 500000>>, <<850000, 1850000>>} }

LiveNext ==
    \/ Mount
    \/ \E e \in LiveEvents : AfterSetExtremes(e)
    \/ \E sym \in SymbolChoices : SymbolChange(sym)
    \/ \E tf \in TimeframeChoices : TimeframeChange(tf)
    \/ Settle

SpecLive == Init /\ [][LiveNext]_vars /\ WF_vars(Settle)

---------------------------------------------------------------------------
(* handleAfterSetExtremes alone: one event in a settled controller *)

\* The windows of the fetch the controller settled on.
DecideWindows == { <<300000, 600000>>, <<60000, 120000>> }

\* The ranges of the event: for the loaded range [0, 900000] of the first
\* window, narrow ones, wide ones, ones on the edge buffers' borders
\* (180000 and 720000), one of exactly 30% of the loaded span, and ones
\* reaching outside.
DecideRanges ==
    { <<400000, 500000>>, <<400000, 670000>>, <<250000, 650000>>,
      <<180000, 600000>>, <<300000, 720000>>, <<100000, 500000>>,
      <<0, 900000>>, <<850000, 1850000>>, <<60000, 1000000>>, <<10500, 170500>> }

DecideEvents ==
    { [min |-> r[1], max |-> r[2], trigger |-> t] : r \in DecideRanges, t \in Triggers }

\* The controller after its mount and the completion of its fetches, the
\* last of them for window w: a success, or (settled FALSE) with every fetch
\* failed.  One user operation is left.
DecideInit ==
    /\ variant \in {"multi", "single"}
    /\ mounted = TRUE
    /\ selectedSymbols = <<"AMZN">>
    /\ timeframe \in TimeframeChoices
    /\ visibleColumns = DEFAULT_VISIBLE_COLUMNS
    /\ initialLoadDone = (variant = "multi")
    /\ isLoading = FALSE
    /\ inflight = <<>>
    /\ ops = MaxOps - 1
    /\ probe = NoProbe
    /\ \E w \in DecideWindows, settled \in BOOLEAN :
         LET r == FetchRequest(w[1], w[2], selectedSymbols, timeframe, "mount")
         IN  /\ visibleRange = MkRange(w[1], w[2])
             /\ rawSeries = IF settled THEN RawAfter(r, "ordered") ELSE <<>>
             /\ seriesData = Project(rawSeries, visibleColumns)
             /\ loadedRange = IF settled THEN LoadedAfter(r, NullRange) ELSE NullRange
             /\ heldReq = IF settled THEN <<r>> ELSE <<>>
             /\ newest = [outcome |-> IF settled THEN "success" ELSE "failure", req |-> <<r>>]
             /\ last = [op |-> IF settled THEN "success" ELSE "failure", ev |-> <<>>,
                        issued |-> 0, before |-> NullRange]

DecideNext == \E e \in DecideEvents : AfterSetExtremes(e)

SpecDecide == DecideInit /\ [][DecideNext]_vars

---------------------------------------------------------------------------
(* Properties *)

Elems(q) == { q[i] : i \in 1..Len(q) }

LastEvent == last.ev[1]

\* The request as it was sent, without its history fields.
Sent(r) == [min |-> r.min, max |-> r.max, start |-> r.start, end |-> r.end,
            symbols |-> r.symbols, timeframe |-> r.timeframe]

\* C1: in every reachable state at most one fetch request is in flight.
C1_AtMostOneInFlight == Len(inflight) <= 1

\* C2: in every reachable state the symbols of the held series (rawSeries
\* and seriesData) are among the active symbols, so a response requested for
\* a symbol set that is no longer active is never written into them.
C2_HeldSymbolsActive ==
    /\ \A i \in 1..Len(rawSeries) : rawSeries[i].symbol \in Elems(selectedSymbols)
    /\ \A i \in 1..Len(seriesData) : seriesData[i].symbol \in Elems(selectedSymbols)

\* C3: once every fetch has completed and the most recently issued one
\* succeeded, the held series and loadedRange are those of that request,
\* whichever response arrived last.
C3_NewestRequestWins ==
    (inflight = <<>> /\ newest.outcome = "success")
        => /\ heldReq # <<>>
           /\ Sent(heldReq[1]) = Sent(newest.req[1])
           /\ loadedRange = MkRange(newest.req[1].start, newest.req[1].end)

\* C4: while the fetch issued by the latest symbol change is in flight,
\* loadedRange is empty and no series is held.
C4_EmptyUntilNewSymbolsLoad ==
    (\E i \in 1..Len(inflight) : inflight[i].by = "symbol")
        => (loadedRange.isNull /\ rawSeries = <<>> /\ seriesData = <<>>)

\* C5: every timeframe change (with a symbol to fetch) leaves loadedRange
\* empty and has issued one fetch, for the viewport, at the new timeframe.
C5_TimeframeChangeRefetches ==
    (last.op = "timeframe" /\ selectedSymbols # <<>>)
        => /\ loadedRange.isNull
           /\ last.issued = 1
           /\ newest.outcome = "pending"
           /\ newest.req[1].timeframe = timeframe
           /\ MkRange(newest.req[1].min, newest.req[1].max) = visibleRange


\* An event handled while isLoading is true, or carrying trigger init.
\* (An action formula: isLoading is read before the step, last after it.)
DroppedEventStep ==
    /\ last'.op = "event"
    /\ (isLoading \/ last'.ev[1].trigger = "init")

CompletionStep == last'.op \in {"success", "failure"}

C7_DroppedEventRecorded ==
    [][ DroppedEventStep => visibleRange' = MkRange(last'.ev[1].min, last'.ev[1].max) ]_vars

\* C8: a failed fetch leaves rawSeries, seriesData and loadedRange as they
\* were and ends with isLoading false.
C8_FailureKeepsLastGoodState ==
    [][ last'.op = "failure" =>
          /\ rawSeries' = rawSeries
          /\ seriesData' = seriesData
          /\ loadedRange' = loadedRange
          /\ isLoading' = FALSE ]_vars

\* C8 witness: a fetch failed while series and a loaded range were held.
C8_Witness ==
    /\ last.op = "failure"
    /\ rawSeries # <<>> /\ ~loadedRange.isNull /\ last.before = loadedRange

\* C9: a successful fetch called with [min, max] has queried
\* [min - (max - min), max + (max - min)] and sets loadedRange to exactly
\* that window, whatever loadedRange was.
C9_SuccessSetsWidenedWindow ==
    last.op = "success"
        => /\ heldReq # <<>>
           /\ LET r == heldReq[1]
                  d == r.max - r.min
              IN  /\ r.start = r.min - d
                  /\ r.end = r.max + d
                  /\ loadedRange = MkRange(r.min - d, r.max + d)

\* C9 witness: a successful fetch replaced a loaded range that its window
\* does not contain.
C9_Witness ==
    /\ last.op = "success"
    /\ ~last.before.isNull
    /\ (last.before.min < loadedRange.min \/ last.before.max > loadedRange.max)


\* An event handled with no fetch in flight, whose range lies inside the
\* loaded range and spans more than 30% of it.
WideInsideStep ==
    /\ last'.op = "event"
    /\ inflight = <<>>
    /\ ~loadedRange.isNull
    /\ loadedRange.min <= last'.ev[1].min /\ last'.ev[1].max <= loadedRange.max
    /\ 10 * (last'.ev[1].max - last'.ev[1].min) > 3 * (loadedRange.max - loadedRange.min)

\* C10 as claimed: an event handled with no fetch in flight, contained in a
\* non-empty loadedRange and spanning more than 30% of it, issues no fetch,
\* whatever its trigger.
C10_WideInsideNoFetch ==
    [][ WideInsideStep => (last'.issued = 0 /\ inflight' = inflight) ]_vars

\* C10 as amended: such an event issues no fetch, whatever its trigger, when
\* its range also lies more than one fifth of the loaded span inside both
\* ends of loadedRange.
C10_DeepInsideNoFetch ==
    [][ ( /\ WideInsideStep
          /\ 5 * last'.ev[1].min > 5 * loadedRange.min + (loadedRange.max - loadedRange.min)
          /\ 5 * last'.ev[1].max < 5 * loadedRange.max - (loadedRange.max - loadedRange.min) )
        => (last'.issued = 0 /\ inflight' = inflight) ]_vars

\* C10 witness: a pan event was handled with nothing in flight, wide and
\* more than one fifth of the loaded span inside both ends of loadedRange.
C10_Witness ==
    /\ last.op = "event" /\ LastEvent.trigger = "pan"
    /\ last.issued = 0 /\ inflight = <<>> /\ ~isLoading
    /\ ~last.before.isNull /\ loadedRange = last.before
    /\ 10 * (LastEvent.max - LastEvent.min) > 3 * (loadedRange.max - loadedRange.min)
    /\ 5 * LastEvent.min > 5 * loadedRange.min + (loadedRange.max - loadedRange.min)
    /\ 5 * LastEvent.max < 5 * loadedRange.max - (loadedRange.max - loadedRange.min)

---------------------------------------------------------------------------
(* The alignment of a window, alone *)

\* The bounds of the windows aligned.
AlignBounds == {-70000, -1, 0, 1, 59999, 60000, 100000, 200000, 86400000, 86400001}

\* alignedMin and alignedMax of handleAfterSetExtremes for [lo, hi] at tf.
AlignStep(lo, hi, tf) ==
    /\ lo <= hi
    /\ probe' = [fn |-> "align", min |-> lo, max |-> hi, timeframe |-> tf,
                 out |-> Aligned([min |-> lo, max |-> hi], tf)]
    /\ UNCHANGED <<variant, mounted, selectedSymbols, timeframe, rawSeries, seriesData,
                   visibleRange, loadedRange, isLoading, visibleColumns, initialLoadDone,
                   inflight, heldReq, newest, last, ops>>

AlignNext ==
    \E lo \in AlignBounds, hi \in AlignBounds, tf \in DOMAIN timeframeMinMs :
        AlignStep(lo, hi, tf)

SpecAlign == Init /\ [][AlignNext]_vars

---------------------------------------------------------------------------
(* parseTimeGapToSeconds and the query of fetchData, alone *)

\* A timeframe token is the sequence of its characters.
Spelling ==
    [tf \in DOMAIN timeframeMinMs |->
        CASE tf = "1ms"   -> <<"1", "m", "s">>
          [] tf = "10ms"  -> <<"1", "0", "m", "s">>
          [] tf = "100ms" -> <<"1", "0", "0", "m", "s">>
          [] tf = "1s"    -> <<"1", "s">>
          [] tf = "1min"  -> <<"1", "m", "i", "n">>
          [] tf = "5min"  -> <<"5", "m", "i", "n">>
          [] tf = "1h"    -> <<"1", "h">>
          [] tf = "1d"    -> <<"1", "d">>]

Digits == <<"0", "1", "2", "3", "4", "5", "6", "7", "8", "9">>

DigitChars == { Digits[i] : i \in 1..Len(Digits) }

DigitValue(ch) == (CHOOSE i \in 1..Len(Digits) : Digits[i] = ch) - 1

\* The length of the longest prefix of cs made of characters of class.
RECURSIVE PrefixLen(_, _)
PrefixLen(cs, class) ==
    IF cs = <<>> \/ Head(cs) \notin class THEN 0 ELSE 1 + PrefixLen(Tail(cs), class)

Drop(cs, n) == SubSeq(cs, n + 1, Len(cs))

\* The decimal number the digits ds spell (0 for none).
RECURSIVE DigitsValue(_)
DigitsValue(ds) ==
    IF ds = <<>> THEN 0 ELSE 10 * DigitsValue(SubSeq(ds, 1, Len(ds) - 1)) + DigitValue(ds[Len(ds)])

RECURSIVE Pow10(_)
Pow10(k) == IF k = 0 THEN 1 ELSE 10 * Pow10(k - 1)

\* String.prototype.trim: without the leading and trailing spaces.
RECURSIVE Trim(_)
Trim(cs) ==
    IF cs # <<>> /\ Head(cs) = " " THEN Trim(Tail(cs))
    ELSE IF cs # <<>> /\ cs[Len(cs)] = " " THEN Trim(SubSeq(cs, 1, Len(cs) - 1))
    ELSE cs

NaN == [k |-> "NaN", num |-> 0, den |-> 1]

\* A number as the fraction num / den.
Frac(n, d) == [k |-> "num", num |-> n, den |-> d]

\* parseFloat of a run of digits and dots: the digits, then a dot and the
\* digits after it; NaN when there is no digit at either place.
ParseFloat(cs) ==
    LET ni    == PrefixLen(cs, DigitChars)
        rest  == Drop(cs, ni)
        nf    == IF rest # <<>> /\ Head(rest) = "." THEN PrefixLen(Tail(rest), DigitChars) ELSE 0
        whole == DigitsValue(SubSeq(cs, 1, ni))
        part  == DigitsValue(SubSeq(rest, 2, nf + 1))
    IN  IF ni = 0 /\ nf = 0 THEN NaN
        ELSE Frac(whole * Pow10(nf) + part, Pow10(nf))

\* The regular expression ^([\d.]+)\s*(ms|s|min|h|d)?$ on the trimmed
\* token, then the switch on the unit; a token without unit is in seconds.
parseTimeGapToSeconds(timeStr) ==
    LET t      == Trim(timeStr)
        n      == PrefixLen(t, DigitChars \cup {"."})
        after  == Drop(t, n)
        unit   == Drop(after, PrefixLen(after, {" "}))
        value  == ParseFloat(SubSeq(t, 1, n))
        match  == n > 0 /\ unit \in {<<>>, <<"m", "s">>, <<"s">>, <<"m", "i", "n">>, <<"h">>, <<"d">>}
    IN  IF ~match \/ value.k = "NaN" THEN NaN
        ELSE CASE unit = <<"m", "s">>      -> Frac(value.num, value.den * 1000)
               [] unit = <<"s">>           -> value
               [] unit = <<>>              -> value
               [] unit = <<"m", "i", "n">> -> Frac(value.num * 60, value.den)
               [] unit = <<"h">>           -> Frac(value.num * 3600, value.den)
               [] unit = <<"d">>           -> Frac(value.num * oneDay, value.den)

\* The requests one fetchData(min, max) call sends, one per symbol: the
\* parameters of the URL.  Nothing is tested before fetch is called.
FetchQuery(lo, hi, syms, timeStr) ==
    [i \in 1..Len(syms) |->
        [symbol     |-> syms[i],
         time_gap   |-> parseTimeGapToSeconds(timeStr),
         start_date |-> lo - (hi - lo),
         end_date   |-> hi + (hi - lo),
         N          |-> 500]]

\* The tokens examined: those of the timeframe buttons, and tokens with
\* another value, without unit, with spaces, with an unknown unit, without
\* numeric prefix, or empty.
ParseTokens ==
    { Spelling[tf] : tf \in DOMAIN timeframeMinMs }
      \cup { <<"2", "d">>, <<"1", "5", "m", "i", "n">>, <<"1", "0">>, <<"1", ".", "5", "s">>,
             <<" ", "1", " ", "h", " ">>, <<"5", "x">>, <<"1", "m">>, <<"m", "i", "n">>,
             <<".">>, <<"a", "b", "c">>, <<>> }

QueryStep(timeStr, e) ==
    /\ probe' = [fn |-> "query", token |-> timeStr, min |-> e[1], max |-> e[2],
                 out |-> FetchQuery(e[1], e[2], selectedSymbols, timeStr)]
    /\ UNCHANGED <<variant, mounted, selectedSymbols, timeframe, rawSeries, seriesData,
                   visibleRange, loadedRange, isLoading, visibleColumns, initialLoadDone,
                   inflight, heldReq, newest, last, ops>>

ParseNext == \E timeStr \in ParseTokens, e \in EventRanges : QueryStep(timeStr, e)

SpecParse == Init /\ [][ParseNext]_vars

---------------------------------------------------------------------------
(* The timeframe buttons: every token can become the active timeframe *)

ButtonsNext ==
    \/ Mount
    \/ \E i \in 1..Len(TimeframeButtons) : TimeframeChange(TimeframeButtons[i])
    \/ \E i \in 1..MaxInflight, shape \in ResponseShapes : FetchSuccess(i, shape)
    \/ \E i \in 1..MaxInflight : FetchFailure(i)

SpecButtons == Init /\ [][ButtonsNext]_vars

---------------------------------------------------------------------------
(* instantZoomOut, onWheel and handleKeyDown, alone *)

\* What a handler asks of the axis: no call, or setExtremes(min / per,
\* max / per, ..., {trigger}).  per is 1 where the source rounds to whole
\* milliseconds and 20 where it passes on a tenth or a twentieth of a span.
NoCall == [call |-> FALSE, min |-> 0, max |-> 0, per |-> 1, trigger |-> "none"]

SetExtremes(lo, hi, per, trigger) ==
    [call |-> TRUE, min |-> lo, max |-> hi, per |-> per, trigger |-> trigger]

FloorDiv(a, b) == a \div b

CeilDiv(a, b) == -((-a) \div b)

Max(a, b) == IF a >= b THEN a ELSE b

Min(a, b) == IF a <= b THEN a ELSE b

\* multi: factor is the fraction factor[1] / factor[2].  The new span is
\* the larger of range0 * factor and ten durations of the timeframe; the
\* bounds are the floor and the ceiling of center -/+ half of it.
instantZoomOut_multi(vp, tf, factor) ==
    IF vp.isNull THEN NoCall
    ELSE LET sum    == vp.min + vp.max
             range0 == vp.max - vp.min
             floor  == timeframeMinMs[tf] * 10
             scaled == FloorDiv(range0 * factor[1], factor[2] * 10) >= timeframeMinMs[tf]
         IN  IF scaled
             THEN SetExtremes(FloorDiv(factor[2] * sum - factor[1] * range0, 2 * factor[2]),
                              CeilDiv(factor[2] * sum + factor[1] * range0, 2 * factor[2]),
                              1, "zoomout")
             ELSE SetExtremes(FloorDiv(sum - floor, 2), CeilDiv(sum + floor, 2), 1, "zoomout")

\* A zoom-out whose half span is rounded down.
instantZoomOut_single_FloorsHalf(vp, tf, factor) ==
    IF vp.isNull THEN NoCall
    ELSE LET center == FloorDiv(vp.min + vp.max, 2)
             half   == FloorDiv((vp.max - vp.min) * factor[1], 2 * factor[2])
         IN  SetExtremes(center - half, center + half, 1, "zoomout")

\* single: the center is floored, the half span is the ceiling of
\* range0 * factor / 2, and no least span is applied.
instantZoomOut_single(vp, tf, factor) ==
    IF vp.isNull THEN NoCall
    ELSE LET center == FloorDiv(vp.min + vp.max, 2)
             range0 == vp.max - vp.min
             half   == CeilDiv(range0 * factor[1], 2 * factor[2])
         IN  SetExtremes(center - half, center + half, 1, "zoomout")

\* The default factor 1.2, and the 1 / 1.2 of multi's wheel-up branch.
ZoomOutFactor == <<6, 5>>

ZoomInFactor == <<5, 6>>

\* handleZoomOut, from the Zoom Out button or a wheel-down.
handleZoomOut(vp, tf) ==
    IF variant = "multi"
    THEN instantZoomOut_multi(vp, tf, ZoomOutFactor)
    ELSE instantZoomOut_single(vp, tf, ZoomOutFactor)

\* onWheel with deltaY < 0: multi calls instantZoomOut with 1 / 1.2, single
\* has no such branch.
wheelUp(vp, tf) ==
    IF variant = "multi" THEN instantZoomOut_multi(vp, tf, ZoomInFactor) ELSE NoCall

\* A key handler that moves the near bound only.
handleKeyDown_multi_OneBound(key, vp, tf) ==
    IF vp.isNull \/ key \notin {"ArrowLeft", "ArrowRight"} THEN NoCall
    ELSE LET pan == 2 * (vp.max - vp.min)
         IN  IF key = "ArrowLeft"
             THEN SetExtremes(20 * vp.min - pan, 20 * vp.max, 20, "pan")
             ELSE SetExtremes(20 * vp.min, 20 * vp.max + pan, 20, "pan")

\* multi: both bounds move by a tenth of the span; then the clamp to the
\* Date limits and the least span of one duration of the timeframe.
\* Positions are in twentieths of a millisecond.
handleKeyDown_multi(key, vp, tf) ==
    IF vp.isNull \/ key \notin {"ArrowLeft", "ArrowRight"} THEN NoCall
    ELSE LET panAmount == 2 * (vp.max - vp.min)
             shift     == IF key = "ArrowLeft" THEN -panAmount ELSE panAmount
             newMin    == Max(20 * vp.min + shift, -20 * DateLimit)
             newMax    == Min(20 * vp.max + shift, 20 * DateLimit)
             least     == 20 * timeframeMinMs[tf]
         IN  IF newMax - newMin < least
             THEN IF key = "ArrowLeft"
                  THEN SetExtremes(newMin, newMin + least, 20, "pan")
                  ELSE SetExtremes(newMax - least, newMax, 20, "pan")
             ELSE SetExtremes(newMin, newMax, 20, "pan")

\* single: both bounds move by a twentieth of the span; the leading bound
\* is clamped to the Date limit and the other kept 1000 ms from it.  There
\* is no test of the axis extremes: null ones count as 0.
handleKeyDown_single(key, vp, tf) ==
    LET panAmount == vp.max - vp.min
    IN  CASE key = "ArrowLeft" ->
               LET newMin == Max(20 * vp.min - panAmount, -20 * DateLimit)
                   newMax == Max(20 * vp.max - panAmount, newMin + 20 * 1000)
               IN  SetExtremes(newMin, newMax, 20, "pan")
          [] key = "ArrowRight" ->
               LET newMax == Min(20 * vp.max + panAmount, 20 * DateLimit)
                   newMin == Min(20 * vp.min + panAmount, newMax - 20 * 1000)
               IN  SetExtremes(newMin, newMax, 20, "pan")
          [] OTHER -> NoCall

handleKeyDown(key, vp, tf) ==
    IF variant = "multi" THEN handleKeyDown_multi(key, vp, tf) ELSE handleKeyDown_single(key, vp, tf)

\* The axis extremes the handlers are tried on: none, spans under and
\* over ten durations, an odd sum, a span of one millisecond, spans under
\* 1000 ms, and viewports at either Date limit.
AdapterViewports ==
    { NullRange, MkRange(0, 100000), MkRange(400000, 1400000), MkRange(3, 8), MkRange(7, 8),
      MkRange(500, 700), MkRange(-60000, 660000),
      MkRange(DateLimit - 1000, DateLimit), MkRange(-DateLimit, 1000 - DateLimit) }

\* The timeframes of the key steps (durations far below DateLimit).
AdapterTimeframes == {"1ms", "1s", "1min"}

Keys == {"ArrowLeft", "ArrowRight", "Enter"}

ZoomOutStep(vp, tf) ==
    /\ probe' = [fn |-> "zoomout", vp |-> vp, timeframe |-> tf, key |-> "",
                 out |-> handleZoomOut(vp, tf)]
    /\ UNCHANGED <<variant, mounted, selectedSymbols, timeframe, rawSeries, seriesData,
                   visibleRange, loadedRange, isLoading, visibleColumns, initialLoadDone,
                   inflight, heldReq, newest, last, ops>>

WheelUpStep(vp, tf) ==
    /\ probe' = [fn |-> "wheelup", vp |-> vp, timeframe |-> tf, key |-> "",
                 out |-> wheelUp(vp, tf)]
    /\ UNCHANGED <<variant, mounted, selectedSymbols, timeframe, rawSeries, seriesData,
                   visibleRange, loadedRange, isLoading, visibleColumns, initialLoadDone,
                   inflight, heldReq, newest, last, ops>>

KeyStep(key, vp, tf) ==
    /\ probe' = [fn |-> "key", vp |-> vp, timeframe |-> tf, key |-> key,
                 out |-> handleKeyDown(key, vp, tf)]
    /\ UNCHANGED <<variant, mounted, selectedSymbols, timeframe, rawSeries, seriesData,
                   visibleRange, loadedRange, isLoading, visibleColumns, initialLoadDone,
                   inflight, heldReq, newest, last, ops>>

AdapterNext ==
    \/ \E vp \in AdapterViewports, tf \in DOMAIN timeframeMinMs : ZoomOutStep(vp, tf)
    \/ \E vp \in AdapterViewports, tf \in DOMAIN timeframeMinMs : WheelUpStep(vp, tf)
    \/ \E key \in Keys, vp \in AdapterViewports, tf \in AdapterTimeframes : KeyStep(key, vp, tf)

SpecAdapter == Init /\ [][AdapterNext]_vars

---------------------------------------------------------------------------
(* The decision rules, one event at a time *)

\* An event handled with no fetch in flight and a symbol to fetch.
\* (Action formulas: the state is read before the step, last after it.)
SettledEventStep ==
    /\ last'.op = "event"
    /\ inflight = <<>>
    /\ selectedSymbols # <<>>

\* The event of the step qualifies for the zoom-in rule.
ZoomInEvent ==
    /\ last'.ev[1].trigger # "zoomout"
    /\ 10 * (last'.ev[1].max - last'.ev[1].min) <= 3 * (loadedRange.max - loadedRange.min)

\* The step issued exactly one fetch, called with window w.
IssuedExactly(w) ==
    /\ last'.issued = 1
    /\ Len(inflight') = 1
    /\ MkRange(inflight'[1].min, inflight'[1].max) = w

IssuedNothing == last'.issued = 0 /\ inflight' = inflight

\* The bounding box of the event's range and the loaded range.
UnionWithLoaded(e, loaded) ==
    IF loaded.isNull THEN MkRange(e.min, e.max)
    ELSE MkRange(IF e.min < loaded.min THEN e.min ELSE loaded.min,
                 IF e.max > loaded.max THEN e.max ELSE loaded.max)

\* C11: an event handled with no fetch in flight, whose trigger is neither
\* zoomout nor init and whose span is at most 30% of the loaded span, issues
\* one fetch, for exactly [floor(min/d)*d, ceil(max/d)*d] with d the
\* duration of the active timeframe.
C11_ZoomInFetchesAligned ==
    [][ (SettledEventStep /\ ZoomInEvent /\ last'.ev[1].trigger # "init")
        => IssuedExactly(MkRange(FloorTo(last'.ev[1].min, timeframeMinMs[timeframe]),
                                 CeilTo(last'.ev[1].max, timeframeMinMs[timeframe]))) ]_vars

\* C12: a pan or zoomout event handled with no fetch in flight that does not
\* qualify for the zoom-in rule issues a fetch of its aligned window if and
\* only if max >= loaded.max - diff or min <= loaded.min + diff, with diff
\* one fifth of the loaded span (compared here with both sides times 5).
C12_EdgeRuleIff ==
    [][ (SettledEventStep /\ last'.ev[1].trigger \in {"pan", "zoomout"} /\ ~ZoomInEvent)
        => IF \/ 5 * last'.ev[1].max >= 5 * loadedRange.max - (loadedRange.max - loadedRange.min)
              \/ 5 * last'.ev[1].min <= 5 * loadedRange.min + (loadedRange.max - loadedRange.min)
           THEN IssuedExactly(Aligned(last'.ev[1], timeframe))
           ELSE IssuedNothing ]_vars

\* C13 as claimed: the fetch issued for a pan event handled with no fetch in
\* flight is for the aligned union of the event's range and the loaded range.
C13_PanFetchesAlignedUnion ==
    [][ (SettledEventStep /\ last'.ev[1].trigger = "pan" /\ last'.issued = 1)
        => IssuedExactly(Aligned(UnionWithLoaded(last'.ev[1], loadedRange), timeframe)) ]_vars

\* C13 as amended: the fetch issued for a pan event handled with no fetch in
\* flight is for the aligned range of the event alone, whatever the loaded
\* range is.
C13_PanFetchesAlignedEvent ==
    [][ (SettledEventStep /\ last'.ev[1].trigger = "pan" /\ last'.issued = 1)
        => IssuedExactly(Aligned(last'.ev[1], timeframe)) ]_vars

\* C13 witness: a pan event reaching into the upper edge buffer of the
\* loaded range, and not below its lower end, was fetched.
C13_Witness ==
    /\ last.op = "event" /\ LastEvent.trigger = "pan" /\ last.issued = 1
    /\ ~last.before.isNull
    /\ LastEvent.min > last.before.min
    /\ 5 * LastEvent.max >= 5 * last.before.max - (last.before.max - last.before.min)
    /\ Aligned(LastEvent, timeframe) # Aligned(UnionWithLoaded(LastEvent, last.before), timeframe)

\* C14: an event with an undefined trigger that does not qualify for the
\* zoom-in rule issues no fetch, whatever its range and the loaded range.
C14_UndefinedNeverFetches ==
    [][ (last'.op = "event" /\ last'.ev[1].trigger = "undefined" /\ ~ZoomInEvent)
        => IssuedNothing ]_vars

\* C15: an event whose trigger is none of init, pan, zoomout and undefined,
\* handled with no fetch in flight and not qualifying for the zoom-in rule,
\* issues no fetch when the loaded range contains its range and otherwise
\* one fetch for [min(min, loaded.min), max(max, loaded.max)].
C15_FallbackFetchesUnion ==
    [][ ( /\ SettledEventStep
          /\ last'.ev[1].trigger \notin {"init", "pan", "zoomout", "undefined"}
          /\ ~ZoomInEvent )
        => IF /\ ~loadedRange.isNull
              /\ loadedRange.min <= last'.ev[1].min
              /\ last'.ev[1].max <= loadedRange.max
           THEN IssuedNothing
           ELSE IssuedExactly(UnionWithLoaded(last'.ev[1], loadedRange)) ]_vars

---------------------------------------------------------------------------
(* Series, loaded range and loading flag *)

\* C16: toggling a column's visibility issues no fetch and leaves
\* loadedRange, rawSeries and every series' data, name and color unchanged;
\* the visible flag changes on the series of the toggled column only, and
\* projecting the result with the same mask again yields the same series.
C16_ToggleOnlyFlipsVisible ==
    [][ last'.op = "toggle" =>
          /\ inflight' = inflight /\ last'.issued = 0
          /\ loadedRange' = loadedRange
          /\ rawSeries' = rawSeries
          /\ Len(seriesData') = Len(seriesData)
          /\ \A i \in 1..Len(seriesData) :
                /\ seriesData'[i].data = seriesData[i].data
                /\ seriesData'[i].name = seriesData[i].name
                /\ seriesData'[i].color = seriesData[i].color
                /\ seriesData'[i].visible =
                     IF visibleColumns'[seriesData[i].column] # visibleColumns[seriesData[i].column]
                     THEN ~seriesData[i].visible
                     ELSE seriesData[i].visible
          /\ Project(seriesData', visibleColumns') = seriesData' ]_vars

\* C16 witness: a column was toggled while series with points were held,
\* and one of them is now hidden.
C16_Witness ==
    /\ last.op = "toggle"
    /\ \E i \in 1..Len(seriesData) : ~seriesData[i].visible /\ seriesData[i].data # <<>>
    /\ \E i \in 1..Len(seriesData) : seriesData[i].visible

\* C17 as claimed: every successful fetch leaves a loadedRange that contains
\* the loadedRange held before it.
C17_LoadedRangeNeverShrinks ==
    [][ (last'.op = "success" /\ ~loadedRange.isNull)
        => (loadedRange'.min <= loadedRange.min /\ loadedRange.max <= loadedRange'.max) ]_vars

\* C17 as amended: a successful fetch leaves a loadedRange that contains the
\* one held before it whenever the window [min, max] fetchData was called
\* with contains it; other fetches may shrink loadedRange.
C17_LoadedRangeGrowsWithWindow ==
    [][ ( /\ last'.op = "success" /\ ~loadedRange.isNull
          /\ heldReq'[1].min <= loadedRange.min /\ loadedRange.max <= heldReq'[1].max )
        => (loadedRange'.min <= loadedRange.min /\ loadedRange.max <= loadedRange'.max) ]_vars

\* C17 witness: a fetch called with a window containing the loaded range
\* succeeded and the loaded range grew.
C17_Witness ==
    /\ last.op = "success" /\ ~last.before.isNull /\ heldReq # <<>>
    /\ heldReq[1].min <= last.before.min /\ last.before.max <= heldReq[1].max
    /\ loadedRange # last.before

\* C18: when loadedRange is not empty, every point of every held series has
\* its timestamp inside loadedRange (the endpoint returning rows inside the
\* queried window only).
C18_PointsInsideLoadedRange ==
    ~loadedRange.isNull =>
        \A q \in {rawSeries, seriesData} :
            \A i \in 1..Len(q) :
                \A j \in 1..Len(q[i].data) :
                    /\ loadedRange.min <= q[i].data[j][1]
                    /\ q[i].data[j][1] <= loadedRange.max

\* C18 witness: series with points on both ends of the loaded range are
\* held after a response that arrived while another fetch was in flight.
C18_Witness ==
    /\ last.op = "success" /\ inflight # <<>> /\ ~last.before.isNull
    /\ \E i \in 1..Len(seriesData) :
          /\ Len(seriesData[i].data) >= 2
          /\ \E j \in 1..Len(seriesData[i].data) : seriesData[i].data[j][1] = loadedRange.min
          /\ \E j \in 1..Len(seriesData[i].data) : seriesData[i].data[j][1] = loadedRange.max

\* C19: for min <= max and every timeframe of duration d, the aligned window
\* satisfies alignedMin <= min <= max <= alignedMax, both bounds being
\* multiples of d; at 1min, [100000, 200000] gives [60000, 240000].
C19_AlignedCoversWindow ==
    probe.fn = "align" =>
        /\ probe.out.min <= probe.min
        /\ probe.max <= probe.out.max
        /\ probe.out.min % timeframeMinMs[probe.timeframe] = 0
        /\ probe.out.max % timeframeMinMs[probe.timeframe] = 0
        /\ (probe.timeframe = "1min" /\ probe.min = 100000 /\ probe.max = 200000)
              => probe.out = MkRange(60000, 240000)

\* C19 witness: a window off the grid at both ends was aligned.
C19_Witness ==
    /\ probe.fn = "align"
    /\ probe.out.min < probe.min /\ probe.min < probe.max /\ probe.max < probe.out.max

\* C20: isLoading is true if and only if at least one fetch is in flight.
C20_LoadingFlagAccurate == isLoading <=> (inflight # <<>>)

---------------------------------------------------------------------------
(* The series a response leaves *)

\* The points the rows give for one column.
RowPoints(rows, col) == { <<rows[i].time, Number(rows[i].cells[col])>> : i \in 1..Len(rows) }

\* Every series of raw is made of points of the response of this shape to
\* request r, at most one per row, six series per symbol asked.
BuiltFrom(raw, shape, r) ==
    /\ Len(raw) = Len(COLUMN_KEYS) * (IF variant = "multi" THEN Len(r.symbols) ELSE 1)
    /\ \A i \in 1..Len(raw) :
          /\ Len(raw[i].data) <= Len(Rows(shape, r))
          /\ Elems(raw[i].data) \subseteq RowPoints(Rows(shape, r), raw[i].column)

\* C21: after a successful fetch the held series are built from the points
\* of that response alone: the whole list is replaced, and no point held
\* before is kept or merged in.
C21_SuccessReplacesSeries ==
    last.op = "success" =>
        /\ \E shape \in ResponseShapes : BuiltFrom(rawSeries, shape, heldReq[1])
        /\ seriesData = Project(rawSeries, visibleColumns)

\* A success that arrives while series of another window are held.
C21_Witness ==
    /\ last.op = "success"
    /\ ~last.before.isNull
    /\ last.before # loadedRange
    /\ rawSeries # <<>>

---------------------------------------------------------------------------
(* The resolution sent to the endpoint *)

SameNumber(a, b) == a.k = b.k /\ a.num * b.den = b.num * a.den

\* The seconds the unit table gives each button token: ms -> value / 1000,
\* s -> value, min -> value * 60, h -> value * 3600, d -> value * 86400.
TableSeconds ==
    [tf \in DOMAIN Spelling |->
        CASE tf = "1ms"   -> Frac(1, 1000)
          [] tf = "10ms"  -> Frac(10, 1000)
          [] tf = "100ms" -> Frac(100, 1000)
          [] tf = "1s"    -> Frac(1, 1)
          [] tf = "1min"  -> Frac(1 * 60, 1)
          [] tf = "5min"  -> Frac(5 * 60, 1)
          [] tf = "1h"    -> Frac(1 * 3600, 1)
          [] tf = "1d"    -> Frac(1 * 86400, 1)]

C23_ResolutionFollowsUnitTable ==
    probe.fn = "query" =>
        \A tf \in DOMAIN Spelling :
            probe.token = Spelling[tf] =>
                \A i \in 1..Len(probe.out) : SameNumber(probe.out[i].time_gap, TableSeconds[tf])

\* C24: every button token has a positive duration in timeframeMinMs, and
\* the active timeframe always has one.
C24_TimeframeHasDuration ==
    /\ \A i \in 1..Len(TimeframeButtons) :
          /\ TimeframeButtons[i] \in DOMAIN timeframeMinMs
          /\ timeframeMinMs[TimeframeButtons[i]] \in Nat \ {0}
    /\ timeframe \in DOMAIN timeframeMinMs
    /\ timeframeMinMs[timeframe] \in Nat \ {0}

\* The day button was pressed and its fetch has come back.
C24_Witness ==
    /\ timeframe = "1d"
    /\ last.op = "success"
    /\ heldReq # <<>>
    /\ heldReq[1].timeframe = "1d"

---------------------------------------------------------------------------
(* Zooming out and panning with the keys *)

\* C25: a wheel-down or Zoom Out sets a viewport centered on the midpoint
\* of the current one (to the millisecond), containing it, at least ten
\* durations of the active timeframe wide, tagged zoomout.
C25_ZoomOutCenteredAndFloored ==
    (probe.fn = "zoomout" /\ ~probe.vp.isNull) =>
        /\ probe.out.call
        /\ probe.out.trigger = "zoomout"
        /\ probe.out.min + probe.out.max - (probe.vp.min + probe.vp.max) \in {-1, 0, 1}
        /\ probe.out.min <= probe.vp.min
        /\ probe.out.max >= probe.vp.max
        /\ probe.out.max - probe.out.min >= 10 * timeframeMinMs[probe.timeframe]

\* The date clamp or the least span changes what an arrow key would set.
KeyClampApplies ==
    LET span  == probe.vp.max - probe.vp.min
        pan   == IF variant = "multi" THEN 2 * span ELSE span
        shift == IF probe.key = "ArrowLeft" THEN -pan ELSE pan
        least == IF variant = "multi" THEN timeframeMinMs[probe.timeframe] ELSE 1000
    IN  \/ 20 * probe.vp.min + shift < -20 * DateLimit
        \/ 20 * probe.vp.max + shift > 20 * DateLimit
        \/ span < least

\* C26: an arrow key moves both bounds by one fixed fraction of the span
\* (a tenth in multi, a twentieth in single) towards the key's side and
\* tags the change pan; the span is unchanged when neither the date clamp
\* nor the least span applies.
C26_ArrowKeyShiftsBothBounds ==
    (probe.fn = "key" /\ probe.key \in {"ArrowLeft", "ArrowRight"}
       /\ ~probe.vp.isNull /\ ~KeyClampApplies) =>
        LET span == probe.vp.max - probe.vp.min
            pan  == IF variant = "multi" THEN 2 * span ELSE span
            dir  == IF probe.key = "ArrowLeft" THEN -1 ELSE 1
        IN  /\ probe.out.call
            /\ probe.out.trigger = "pan"
            /\ probe.out.per = 20
            /\ probe.out.min = 20 * probe.vp.min + dir * pan
            /\ probe.out.max = 20 * probe.vp.max + dir * pan
            /\ probe.out.max - probe.out.min = 20 * span

\* ArrowRight on a viewport of a million milliseconds, away from the limits.
C26_Witness ==
    /\ probe.fn = "key"
    /\ probe.key = "ArrowRight"
    /\ probe.vp = MkRange(400000, 1400000)
    /\ ~KeyClampApplies
    /\ probe.out.call
    /\ probe.out.min > 20 * probe.vp.min

---------------------------------------------------------------------------
(* Cells without value, and the order of the points *)

\* The points of the rows that have a value in column col.
ValuedPoints(rows, col) == PointsOf(SelectSeq(rows, LAMBDA row : HasValue(row, col)), col)

\* C27: a (timestamp, value) pair is added to a series only for a row whose
\* cell in that column is neither null nor undefined: after a success each
\* series holds the points of the valued cells of the response and no other.
C27_OnlyValuedCellsBecomePoints ==
    last.op = "success" =>
        \E shape \in ResponseShapes :
            \A i \in 1..Len(rawSeries) :
                rawSeries[i].data = ValuedPoints(Rows(shape, heldReq[1]), rawSeries[i].column)

Ascending(data) == \A i, j \in 1..Len(data) : i < j => data[i][1] <= data[j][1]

\* C28: after every successful fetch the points of each held series are in
\* ascending timestamp order, whatever the order of the rows.
C28_PointsAscending ==
    last.op = "success" => \A i \in 1..Len(rawSeries) : Ascending(rawSeries[i].data)

---------------------------------------------------------------------------
(* The loading flag is cleared *)

\* C29: when every request eventually succeeds or fails, a state with
\* isLoading true is always followed by one with isLoading false.
C29_LoadingEventuallyCleared == isLoading ~> ~isLoading

\* The last awaited request has failed and the flag is down.
C29_Witness ==
    /\ mounted
    /\ last.op = "failure"
    /\ inflight = <<>>
    /\ ~isLoading

---------------------------------------------------------------------------
(* The fetches of the mount *)

\* C30: mounting with a non-empty default symbol set calls fetchData
\* exactly once before any user interaction.
C30_MountIssuesOneFetch ==
    (last.op = "mount" /\ selectedSymbols # <<>>) => last.issued = 1

---------------------------------------------------------------------------
(* The timeframe of the held series *)

\* C31: whenever no fetch is in flight and the held series are not empty,
\* they were fetched at the active timeframe.
C31_HeldSeriesAtActiveTimeframe ==
    (inflight = <<>> /\ rawSeries # <<>>) =>
        (heldReq # <<>> /\ heldReq[1].timeframe = timeframe)

---------------------------------------------------------------------------
(* The window of a symbol change *)

\* C37: a symbol change that leaves a symbol active sets the recorded
\* viewport to the default lookback window and fetches that window, not
\* the viewport shown before the change.
C37_SymbolChangeFetchesDefaultWindow ==
    (last.op = "symbol" /\ selectedSymbols # <<>>) =>
        /\ visibleRange = DefaultWindow
        /\ last.issued = 1
        /\ inflight # <<>>
        /\ inflight[Len(inflight)].min = DefaultWindow.min
        /\ inflight[Len(inflight)].max = DefaultWindow.max

---------------------------------------------------------------------------
(* multi with no symbol selected *)

\* C32: in the multi-symbol controller no step that leaves the symbol set
\* empty sends a request, viewport-change events included; the step that
\* empties the set clears the series, empties loadedRange and sets
\* isLoading false.
C32_EmptySymbolSetSendsNothing ==
    [][ (variant = "multi" /\ selectedSymbols' = <<>>) =>
            /\ last'.issued = 0
            /\ Len(inflight') <= Len(inflight)
            /\ (last'.op = "symbol" =>
                    rawSeries' = <<>> /\ seriesData' = <<>> /\ loadedRange'.isNull /\ ~isLoading') ]_vars

\* A pan event handled with no symbol selected and nothing loaded.
C32_Witness ==
    /\ variant = "multi"
    /\ selectedSymbols = <<>>
    /\ last.op = "event"
    /\ LastEvent.trigger = "pan"
    /\ loadedRange.isNull
    /\ ~isLoading
    /\ visibleRange = MkRange(LastEvent.min, LastEvent.max)

---------------------------------------------------------------------------
(* Reloading after the data was cleared *)

\* C34: with loadedRange empty, no fetch in flight and a symbol active,
\* every pan or zoomout event with non-negative timestamps and positive
\* span issues a fetch.
C34_ClearedControllerReloads ==
    [][ (SettledEventStep /\ loadedRange.isNull
           /\ last'.ev[1].trigger \in {"pan", "zoomout"}
           /\ last'.ev[1].min >= 0 /\ last'.ev[1].max > last'.ev[1].min)
        => (last'.issued = 1 /\ Len(inflight') = 1 /\ isLoading') ]_vars

\* A zoomout event that found nothing loaded and fetched.
C34_Witness ==
    /\ last.op = "event"
    /\ LastEvent.trigger = "zoomout"
    /\ last.before.isNull
    /\ last.issued = 1
    /\ Len(inflight) = 1

---------------------------------------------------------------------------
(* The two controllers on the same event *)

\* C38: with one active symbol, no fetch in flight and a non-empty
\* loadedRange, the multi-symbol and the single-symbol handler take the
\* same decision on every pan and zoomout event: both fetch the same
\* window, or neither fetches.
C38_ControllersDecideAlike ==
    [][ (SettledEventStep /\ ~loadedRange.isNull /\ Len(selectedSymbols) = 1
           /\ last'.ev[1].trigger \in {"pan", "zoomout"})
        => Decide_multi(last'.ev[1], isLoading, loadedRange, selectedSymbols, timeframe).fetch
             = Decide_single(last'.ev[1], isLoading, loadedRange, timeframe).fetch ]_vars

---------------------------------------------------------------------------
(* What the zoomout tag promises *)

\* C36: a viewport change tagged zoomout, from the Zoom Out button or the
\* wheel in either direction, is at least as wide as the viewport it
\* replaces.
C36_ZoomoutTagNeverNarrows ==
    (probe.fn \in {"zoomout", "wheelup"} /\ probe.out.call /\ probe.out.trigger = "zoomout") =>
        probe.out.max - probe.out.min >= probe.vp.max - probe.vp.min

---------------------------------------------------------------------------
(* Viewports are ordered *)

C35_RecordedViewportOrdered == visibleRange.isNull \/ visibleRange.min < visibleRange.max

---------------------------------------------------------------------------
(* A fetch of several symbols *)

\* C33: in the multi-symbol controller a fetch is all-or-nothing: when it
\* fails, the held series and loadedRange are left as they were; when it
\* succeeds, six series of every symbol asked are installed, in the order
\* asked, together with the loadedRange of the request.
C33_MultiFetchAllOrNothing ==
    [][ variant = "multi" =>
            /\ last'.op = "failure" => (rawSeries' = rawSeries /\ loadedRange' = loadedRange)
            /\ last'.op = "success" =>
                  /\ Len(rawSeries') = Len(COLUMN_KEYS) * Len(heldReq'[1].symbols)
                  /\ \A i \in 1..Len(rawSeries') :
                        rawSeries'[i].symbol
                          = heldReq'[1].symbols[((i - 1) \div Len(COLUMN_KEYS)) + 1]
                  /\ loadedRange' = MkRange(heldReq'[1].start, heldReq'[1].end) ]_vars

\* A fetch of two symbols has succeeded.
C33_Witness ==
    /\ variant = "multi"
    /\ last.op = "success"
    /\ Len(heldReq[1].symbols) = 2
    /\ Len(rawSeries) = 2 * Len(COLUMN_KEYS)
    /\ rawSeries[1].symbol # rawSeries[Len(rawSeries)].symbol

====
